---- MODULE Spec2Model ----
(***************************************************************************)
(* Requester.js: the notification action-button round trip, and around it *)
(* the settings, the capability requests with their hooks, the media       *)
(* streams held, and the mailto links.                                     *)
(*                                                                         *)
(* Two execution contexts share nothing but messages:                      *)
(*   - the foreground page (src/requester.js), which keeps the registry    *)
(*     this.notificationCallbacks (tag -> handlers) and listens to the     *)
(*     messages of the service worker;                                     *)
(*   - the service worker (src/unnamed/part_000), which keeps its own      *)
(*     notificationCallbacks (tag -> descriptor) and turns the platform's  *)
(*     notificationclick / notificationclose events into messages.         *)
(*                                                                         *)
(* Values.  A handler is 0 (undefined) or a positive number naming a       *)
(* function object.  An action id is 0 (absent, or the empty string) or a  *)
(* positive number naming a string; the string "action-<idx>" that the     *)
(* code generates for a button without an id is the number idx + 1, so a   *)
(* caller-supplied id can be the same string as a generated one.  A marker *)
(* that crossed the context boundary is 0 (undefined) or 1 (truthy data).  *)
(* A stream is 0 (null) or a positive number naming a MediaStream object.  *)
(* The values handed to hooks are named by what they are: "result",        *)
(* "reason" (a string), "error" (an Error object).                         *)
(***************************************************************************)
EXTENDS Naturals, Integers, Sequences, FiniteSets, TLC

\* ------------------------------------------------------------------ bounds
MaxTags == 1      \* caller-supplied tags are 1..MaxTags
MaxClock == 0     \* Date.now() returns a value in 0..MaxClock
MaxActions == 1   \* caller-supplied action ids are 1..MaxActions
MaxButtons == 1   \* buttons of one notification
MaxHandlers == 1  \* distinct function objects a caller passes
MaxQueue == 1     \* messages in flight in one direction
MaxStyleKeys == 2    \* keys of settings.errorPopupStyle are 1..MaxStyleKeys
MaxStyleValues == 1  \* a caller's style values are 1..MaxStyleValues
MaxStreams == 2      \* MediaStream objects alive at one time
MaxChars == 1        \* characters in one field of a mailto link

Undefined == 0
Truthy == 1

CallerTags == 1..MaxTags
ActionIds == 1..MaxActions
Handlers == 1..MaxHandlers
Markers == {Undefined, Truthy}

\* `notification-${Date.now()}` (requester.js:228): a string no caller tag of
\* the model equals.
GeneratedTag(time) == MaxTags + 1 + time

\* `action-${idx}` (requester.js:245, 253), idx counted from 0.
GeneratedAction(idx) == idx + 1

AllTags == CallerTags \cup {GeneratedTag(n) : n \in 0..MaxClock}

\* ------------------------------------------------------------------- state
VARIABLES
  notificationCallbacks,   \* foreground registry: Map tag -> CallbackRecord
  swNotificationCallbacks, \* worker store: Map tag -> descriptor
  toWorker,                \* messages posted to the worker, not yet handled
  toClient,                \* messages posted to the page, not yet handled
  shown,                   \* tags of the notifications the platform displays
  closing,                 \* tags of the notificationclose events the platform
                           \* dispatched to the worker, not yet handled
  pageOpen,                \* a window of the page is connected
  closedTags,              \* tags the page handled NOTIFICATION_CLOSED for
                           \* since it last registered them
  settings,                \* this.settings
  serviceWorkerRegistration, \* this.serviceWorkerRegistration (FALSE: null)
  activeStreams,           \* this.activeStreams: capability -> stream, 0: null
  liveTracks,              \* the tracks of page-owned streams not yet stopped
  href,                    \* window.location.href, as last assigned
  last                     \* what the last step did (its observable effects)

\* The state of the Requester object outside the registry, and of the page.
pageVars == <<settings, serviceWorkerRegistration, activeStreams, liveTracks,
              href>>

vars == <<notificationCallbacks, swNotificationCallbacks, toWorker, toClient,
          shown, closing, pageOpen, closedTags, settings, serviceWorkerRegistration,
          activeStreams, liveTracks, href, last>>

\* ---------------------------------------------------------------- JS Map
EmptyMap == << >>

Has(m, k) == k \in DOMAIN m

MapSet(m, k, v) == [x \in (DOMAIN m) \cup {k} |-> IF x = k THEN v ELSE m[x]]

MapDelete(m, k) == [x \in (DOMAIN m) \ {k} |-> m[x]]

\* ------------------------------------------------------------ constructor
\* The keys of the style map the constructor writes, and the values a style
\* key can have: 0 is the constructor's value of the key.
StyleKeys == 1..MaxStyleKeys

StyleValues == 0..MaxStyleValues

DefaultStyle == [k \in StyleKeys |-> 0]

\* this.settings as the constructor writes it.  The hooks are null, which the
\* code tells from a function only by truthiness, as it does undefined.
\* showErrorPopup, errorPopupDuration and serviceWorkerPath steer only the
\* error popup and the registration URL and are left out.
DefaultSettings ==
  [errorPopupStyle |-> DefaultStyle, onAccept |-> 0, onDecline |-> 0,
   onError |-> 0, useServiceWorker |-> FALSE]

Capabilities == {"camera", "microphone", "screen"}

\* this.activeStreams as the constructor writes it: every entry null.
NoStreams == [c \in Capabilities |-> 0]

\* The address of the page before any navigation.
PageUrl == <<"page">>

\* ------------------------------------------------------------ the last step
\* last records what the latest step was and what it did that no other
\* variable keeps: the operation, the tag and action id it was about, whether
\* the handler found an entry for the tag in its own Map, the record or
\* descriptor it wrote, the messages it posted, the handlers it called, what
\* it did to the windows, and what it returned (for a message: its type).
NoData == << >>

NoStep == [op |-> "init", tag |-> 0, action |-> 0, found |-> FALSE,
           data |-> NoData, emitted |-> << >>, invoked |-> << >>,
           focus |-> "none", returned |-> "none"]

Step(op, tag, action, found, data, emitted, invoked, focus, returned) ==
  [op |-> op, tag |-> tag, action |-> action, found |-> found, data |-> data,
   emitted |-> emitted, invoked |-> invoked, focus |-> focus,
   returned |-> returned]

\* One call of a handler: which role it had in the record, for which action id,
\* and which function object was called.
Call(role, action, h) == <<role, action, h>>

\* --------------------------------------------------------- message kinds
StoreMessage(tag, callbacks) ==
  [type |-> "STORE_NOTIFICATION_CALLBACKS", tag |-> tag, callbacks |-> callbacks]

ActionClicked(tag, action) ==
  [type |-> "NOTIFICATION_ACTION_CLICKED", tag |-> tag, action |-> action]

Clicked(tag) == [type |-> "NOTIFICATION_CLICKED", tag |-> tag, action |-> 0]

Closed(tag) == [type |-> "NOTIFICATION_CLOSED", tag |-> tag, action |-> 0]

\* ============================================================ foreground
\* What a caller passes to sendNotification: options.tag (0: none),
\* options.buttons (each with action, 0: none, and onClick), options.onClick,
\* options.onClose and options.onError.  Every function of one call is the
\* function object h.
ButtonInputs(h) == [action : {0} \cup ActionIds, onClick : {Undefined, h}]

ButtonLists(h) ==
  UNION {[1..n -> ButtonInputs(h)] : n \in 1..MaxButtons}

OptionInputs(h) ==
  [tag : {0} \cup CallerTags, buttons : ButtonLists(h),
   onClick : {Undefined, h}, onClose : {Undefined, h},
   onError : {Undefined, h}]

\* The same without buttons (options.buttons absent or empty).
PlainOptionInputs(h) ==
  [tag : {0} \cup CallerTags, buttons : {<< >>},
   onClick : {Undefined, h}, onClose : {Undefined, h},
   onError : {Undefined, h}]

\* const tag = options.tag || `notification-${Date.now()}`
TagOf(options, time) ==
  IF options.tag # 0 THEN options.tag ELSE GeneratedTag(time)

\* callbackData: the buttons with their action ids (given or generated) and
\* handlers, and the two notification-level handlers.
CallbackData(options) ==
  [buttons |-> [i \in 1..Len(options.buttons) |->
                  [action  |-> IF options.buttons[i].action # 0
                               THEN options.buttons[i].action
                               ELSE GeneratedAction(i - 1),
                   onClick |-> options.buttons[i].onClick]],
   onClick |-> options.onClick,
   onClose |-> options.onClose]

\* The action ids of a record's or a descriptor's buttons.
ActionsOf(callbacks) ==
  {callbacks.buttons[i].action : i \in 1..Len(callbacks.buttons)}

\* StructuredClone with the buttons' action ids lost on the way.
StructuredCloneDropsActions(data) ==
  [buttons |-> [i \in 1..Len(data.buttons) |->
                  [action   |-> Undefined,
                   onClick  |-> data.buttons[i].onClick,
                   callback |-> Undefined]],
   onClick |-> data.onClick,
   onClose |-> data.onClose]

\* postMessage serialises its message with the structured clone algorithm,
\* which throws a DataCloneError on a function: a message is cloneable only
\* if no field of it holds one.
HoldsFunction(data) ==
  \/ data.onClick # Undefined
  \/ data.onClose # Undefined
  \/ \E i \in 1..Len(data.buttons) : data.buttons[i].onClick # Undefined

\* What the worker receives: a copy of the data fields.  The copy has the
\* keys the foreground wrote (action, onClick); reading any other key of it,
\* such as callback, gives undefined.
StructuredClone(data) ==
  [buttons |-> [i \in 1..Len(data.buttons) |->
                  [action   |-> data.buttons[i].action,
                   onClick  |-> data.buttons[i].onClick,
                   callback |-> Undefined]],
   onClick |-> data.onClick,
   onClose |-> data.onClose]

\* FindButton with a predicate that accepts every button.
FindButtonAcceptsAny(buttons, action) == IF Len(buttons) > 0 THEN 1 ELSE 0

\* Array.prototype.find over the buttons: the index of the first button whose
\* action is `action`, 0 when there is none.
FindButton(buttons, action) ==
  IF \E i \in 1..Len(buttons) : buttons[i].action = action
  THEN CHOOSE i \in 1..Len(buttons) :
         /\ buttons[i].action = action
         /\ \A j \in 1..(i - 1) : buttons[j].action # action
  ELSE 0

\* RegisterCallbacks that merges into the record already held for the tag: a
\* handler of the old record stays where the new record has none.
RegisterCallbacksMerges(registry, tag, data) ==
  IF Has(registry, tag)
  THEN MapSet(registry, tag,
         [buttons |-> data.buttons,
          onClick |-> IF data.onClick # Undefined
                      THEN data.onClick ELSE registry[tag].onClick,
          onClose |-> IF data.onClose # Undefined
                      THEN data.onClose ELSE registry[tag].onClose])
  ELSE MapSet(registry, tag, data)

\* this.notificationCallbacks.set(tag, callbackData)
RegisterCallbacks(registry, tag, data) == MapSet(registry, tag, data)

\* _sendServiceWorkerNotification(title, text, attachment, options), reached
\* from sendNotification when buttons are requested.  The registry is written
\* first; postMessage then throws on a function, and showNotification either
\* resolves (displayOk) or rejects; both failures are caught, reported to
\* options.onError and give null.
SendServiceWorkerNotification(options, time, displayOk) ==
  LET tag == TagOf(options, time)
      data == CallbackData(options)
      posted == ~HoldsFunction(data)
  IN /\ pageOpen
     /\ posted => Len(toWorker) < MaxQueue
     /\ ~posted => displayOk
     /\ notificationCallbacks' = RegisterCallbacks(notificationCallbacks, tag, data)
     /\ toWorker' = IF posted
                    THEN Append(toWorker, StoreMessage(tag, StructuredClone(data)))
                    ELSE toWorker
     /\ shown' = IF posted /\ displayOk THEN shown \cup {tag} ELSE shown
     /\ UNCHANGED closing
     /\ last' = Step("send", tag, 0, Has(notificationCallbacks, tag), data, << >>,
                     IF ~(posted /\ displayOk) /\ options.onError # Undefined
                     THEN <<Call("onError", "error", options.onError)>>
                     ELSE << >>,
                     "none",
                     IF posted /\ displayOk THEN "sent" ELSE "null")
     /\ closedTags' = closedTags \ {tag}
     /\ UNCHANGED <<swNotificationCallbacks, toClient, pageOpen>>
     /\ UNCHANGED pageVars

\* _sendBasicNotification(title, text, attachment, options): new Notification
\* either succeeds (constructOk), and the Notification object with its
\* onclick, onclose and onerror set is returned, or throws, which is caught,
\* reported to options.onError and gives null.  Neither the registry nor the
\* worker is touched.  The step records the buttons option the method
\* received (it only warns about them).
SendBasicNotification(options, constructOk) ==
  /\ last' = Step("basic", 0, 0, FALSE, [buttons |-> options.buttons], << >>,
                  IF ~constructOk /\ options.onError # Undefined
                  THEN <<Call("onError", "error", options.onError)>>
                  ELSE << >>,
                  "none",
                  IF constructOk THEN "notification" ELSE "null")
  /\ UNCHANGED <<notificationCallbacks, swNotificationCallbacks, toWorker,
                 toClient, shown, closing, pageOpen, closedTags>>
  /\ UNCHANGED pageVars

\* The platform as one call of sendNotification finds it: whether the global
\* Notification is defined, the value of Notification.permission, whether
\* new Notification succeeds and whether showNotification resolves.
Platforms ==
  [defined : BOOLEAN, permission : {"granted", "denied"},
   constructOk : BOOLEAN, displayOk : BOOLEAN]

\* A variant that passes the options on with their buttons.
OptionsWithoutButtonsKeepsButtons(options) == options

\* const optionsWithoutButtons = { ...options };
\* delete optionsWithoutButtons.buttons
OptionsWithoutButtons(options) == [options EXCEPT !.buttons = << >>]

\* sendNotification(title, text, attachment, options).  Notification.permission
\* is read outside any try: where the global Notification is not defined the
\* read throws a ReferenceError, and the async function's promise rejects.
SendNotification(options, time, platform) ==
  LET hasButtons == Len(options.buttons) > 0
      optionsWithoutButtons == OptionsWithoutButtons(options)
  IN /\ pageOpen
     /\ IF ~platform.defined
        THEN /\ last' = Step("sendNotification", 0, 0, FALSE, NoData, << >>,
                             << >>, "none", "throws")
             /\ UNCHANGED <<notificationCallbacks, swNotificationCallbacks,
                            toWorker, toClient, shown, closing, pageOpen, closedTags>>
             /\ UNCHANGED pageVars
        ELSE IF platform.permission # "granted"
        THEN /\ last' = Step("sendNotification", 0, 0, FALSE, NoData, << >>,
                             << >>, "none", "null")
             /\ UNCHANGED <<notificationCallbacks, swNotificationCallbacks,
                            toWorker, toClient, shown, closing, pageOpen, closedTags>>
             /\ UNCHANGED pageVars
        ELSE IF hasButtons /\ ~settings.useServiceWorker
        THEN SendBasicNotification(optionsWithoutButtons, platform.constructOk)
        ELSE IF settings.useServiceWorker /\ serviceWorkerRegistration
                /\ hasButtons
        THEN SendServiceWorkerNotification(options, time, platform.displayOk)
        ELSE SendBasicNotification(options, platform.constructOk)

\* The object spread {...target, ...source}: the keys of both, with the value
\* of source where source has the key.
Spread(target, source) ==
  [k \in (DOMAIN target) \cup (DOMAIN source) |->
     IF k \in DOMAIN source THEN source[k] ELSE target[k]]

\* The style maps a caller can pass: any keys of the style, any values.
StyleMaps == UNION {[K -> StyleValues] : K \in SUBSET StyleKeys}

SettingKeys ==
  {"errorPopupStyle", "onAccept", "onDecline", "onError", "useServiceWorker"}

\* What a caller passes to setSettings: an object with any of the keys, the
\* style a map, the hooks null or the function h.
SettingsInputs(h) ==
  UNION {{[k \in given |->
             CASE k = "errorPopupStyle" -> style
               [] k = "onAccept" -> accept
               [] k = "onDecline" -> decline
               [] k = "onError" -> error
               [] OTHER -> useSw] :
            style \in StyleMaps, accept \in {Undefined, h},
            decline \in {Undefined, h}, error \in {Undefined, h},
            useSw \in BOOLEAN} : given \in SUBSET SettingKeys}

\* this.settings after setSettings(options).  The first statement spreads
\* options over the settings, which puts options.errorPopupStyle in place of
\* the style held; the second statement then spreads options.errorPopupStyle
\* over this.settings.errorPopupStyle, which is by now that same map.
SettingsAfter(held, options) ==
  LET spread == Spread(held, options)
  IN IF "errorPopupStyle" \in DOMAIN options
     THEN [spread EXCEPT !.errorPopupStyle =
                           Spread(spread.errorPopupStyle, options.errorPopupStyle)]
     ELSE spread

\* setSettings(options)
SetSettings(options) ==
  /\ pageOpen
  /\ settings' = SettingsAfter(settings, options)
  /\ last' = Step("setSettings", 0, 0, FALSE, options, << >>, << >>, "none",
                  "none")
  /\ UNCHANGED <<notificationCallbacks, swNotificationCallbacks, toWorker,
                 toClient, shown, closing, pageOpen, closedTags,
                 serviceWorkerRegistration, activeStreams, liveTracks, href>>

\* registerServiceWorker(): without navigator.serviceWorker it throws; the
\* registration is stored as soon as register() resolves, useServiceWorker
\* is set once navigator.serviceWorker.ready resolved too, and a rejection of
\* either is thrown on to the caller.
\* A variant that sets useServiceWorker as soon as register() resolved.
RegistrationCompletesBeforeReady(supported, registerOk, readyOk) ==
  supported /\ registerOk

\* Whether registerServiceWorker() runs to its return statement: the
\* facility exists, register() resolved and navigator.serviceWorker.ready
\* resolved.
RegistrationCompletes(supported, registerOk, readyOk) ==
  supported /\ registerOk /\ readyOk

RegisterServiceWorker(supported, registerOk, readyOk) ==
  /\ pageOpen
  /\ serviceWorkerRegistration' =
       (serviceWorkerRegistration \/ (supported /\ registerOk))
  /\ settings' = IF RegistrationCompletes(supported, registerOk, readyOk)
                 THEN [settings EXCEPT !.useServiceWorker = TRUE]
                 ELSE settings
  /\ last' = Step("registerServiceWorker", 0, 0, FALSE,
                  [supported |-> supported, registerOk |-> registerOk,
                   readyOk |-> readyOk],
                  << >>, << >>, "none",
                  IF supported /\ registerOk /\ readyOk
                  THEN "registration" ELSE "throws")
  /\ UNCHANGED <<notificationCallbacks, swNotificationCallbacks, toWorker,
                 toClient, shown, closing, pageOpen, closedTags, activeStreams,
                 liveTracks, href>>

\* The calls the message listener makes for one message, given the record
\* found for its tag.
HandlerCalls(callbacks, msg) ==
  CASE msg.type = "NOTIFICATION_ACTION_CLICKED" ->
         LET i == FindButton(callbacks.buttons, msg.action)
         IN IF i # 0 /\ callbacks.buttons[i].onClick # Undefined
            THEN <<Call("button", callbacks.buttons[i].action,
                        callbacks.buttons[i].onClick)>>
            ELSE << >>
    [] msg.type = "NOTIFICATION_CLICKED" ->
         IF callbacks.onClick # Undefined
         THEN <<Call("onClick", 0, callbacks.onClick)>>
         ELSE << >>
    [] msg.type = "NOTIFICATION_CLOSED" ->
         IF callbacks.onClose # Undefined
         THEN <<Call("onClose", 0, callbacks.onClose)>>
         ELSE << >>
    [] OTHER -> << >>

\* RegistryAfter that deletes the record only inside `if (callbacks.onClose)`.
RegistryAfterDeletesWithOnClose(registry, msg) ==
  IF /\ Has(registry, msg.tag)
     /\ msg.type = "NOTIFICATION_CLOSED"
     /\ registry[msg.tag].onClose # Undefined
  THEN MapDelete(registry, msg.tag)
  ELSE registry

\* The registry after the message listener handled one message.
RegistryAfter(registry, msg) ==
  IF Has(registry, msg.tag) /\ msg.type = "NOTIFICATION_CLOSED"
  THEN MapDelete(registry, msg.tag)
  ELSE registry

\* The listener of navigator.serviceWorker's message event, on message msg.
OnServiceWorkerMessage(msg) ==
  /\ pageOpen
  /\ notificationCallbacks' = RegistryAfter(notificationCallbacks, msg)
  /\ last' = Step("message", msg.tag, msg.action,
                  Has(notificationCallbacks, msg.tag), NoData, << >>,
                  IF Has(notificationCallbacks, msg.tag)
                  THEN HandlerCalls(notificationCallbacks[msg.tag], msg)
                  ELSE << >>,
                  "none", msg.type)
  /\ closedTags' = IF msg.type = "NOTIFICATION_CLOSED"
                   THEN closedTags \cup {msg.tag}
                   ELSE closedTags
  /\ UNCHANGED <<swNotificationCallbacks, toWorker, shown, closing, pageOpen>>
  /\ UNCHANGED pageVars

\* The page handles the oldest message the worker posted to it.
DeliverToClient ==
  /\ toClient # << >>
  /\ OnServiceWorkerMessage(Head(toClient))
  /\ toClient' = Tail(toClient)

\* The page handles a message of any content: the listener runs on whatever
\* the worker in control of the page posts.
ReceiveAnyMessage(msg) ==
  /\ OnServiceWorkerMessage(msg)
  /\ UNCHANGED toClient

\* The page is closed: its Requester, with the registry, is gone, and what
\* was posted to it is never handled.
PageClose ==
  /\ pageOpen
  /\ pageOpen' = FALSE
  /\ notificationCallbacks' = EmptyMap
  /\ toClient' = << >>
  /\ closedTags' = {}
  /\ settings' = DefaultSettings
  /\ serviceWorkerRegistration' = FALSE
  /\ activeStreams' = NoStreams
  /\ liveTracks' = {}
  /\ href' = PageUrl
  /\ last' = Step("pageclose", 0, 0, FALSE, NoData, << >>, << >>, "none", "none")
  /\ UNCHANGED <<swNotificationCallbacks, toWorker, shown, closing>>

\* The user opens the page: new Requester().
PageOpen ==
  /\ ~pageOpen
  /\ pageOpen' = TRUE
  /\ notificationCallbacks' = EmptyMap
  /\ settings' = DefaultSettings
  /\ serviceWorkerRegistration' = FALSE
  /\ activeStreams' = NoStreams
  /\ liveTracks' = {}
  /\ href' = PageUrl
  /\ last' = Step("pageopen", 0, 0, FALSE, NoData, << >>, << >>, "none", "none")
  /\ UNCHANGED <<swNotificationCallbacks, toWorker, toClient, shown, closing, closedTags>>

\* ========================================================== capabilities
\* The capability requests, by the name of their method.
Wrappers ==
  {"requestNotifications", "requestCamera", "requestMicrophone",
   "requestCameraAndMicrophone", "requestGeolocation", "requestScreenCapture",
   "requestMIDI", "requestClipboardRead", "requestFullscreen",
   "requestDeviceOrientation", "requestBluetooth"}

\* The hooks a caller passes to a capability request, each absent or the
\* function h.  Hooks return normally.
HookInputs(h) ==
  [onAccept : {Undefined, h}, onDecline : {Undefined, h},
   onError : {Undefined, h}]

NoHooks == [onAccept |-> Undefined, onDecline |-> Undefined,
            onError |-> Undefined]

\* What the platform does with one request: the platform object is missing
\* ("unsupported", for the requests that look for it), the request resolves,
\* it resolves with a permission other than 'granted' ("denied"), it rejects
\* or throws an Error ("reject"; for geolocation, the error callback), or no
\* permission is needed ("notRequired").
Outcomes(w) ==
  {"resolve", "reject"}
    \cup (IF w \in {"requestNotifications", "requestGeolocation", "requestMIDI",
                   "requestBluetooth", "requestFullscreen"}
          THEN {"unsupported"} ELSE {})
    \cup (IF w \in {"requestNotifications", "requestDeviceOrientation"}
          THEN {"denied"} ELSE {})
    \cup (IF w = "requestDeviceOrientation" THEN {"notRequired"} ELSE {})

\* The branch of the method an outcome runs: the success statements, the
\* statements that decline with a string reason, or the catch block (the
\* error callback of geolocation).  requestFullscreen throws its own Error
\* when the element has no fullscreen method, and catches it.
Path(w, outcome) ==
  IF outcome \in {"resolve", "notRequired"} THEN "accept"
  ELSE IF outcome \in {"unsupported", "denied"} /\ w # "requestFullscreen"
  THEN "decline"
  ELSE "catch"

\* The hook of the caller that the catch block calls.
CatchHook(w) ==
  IF w \in {"requestNotifications", "requestDeviceOrientation"}
  THEN "onError" ELSE "onDecline"

\* The entries of activeStreams a request assigns its stream to.
StreamSlots(w) ==
  CASE w = "requestCamera" -> {"camera"}
    [] w = "requestMicrophone" -> {"microphone"}
    [] w = "requestCameraAndMicrophone" -> {"camera", "microphone"}
    [] w = "requestScreenCapture" -> {"screen"}
    [] OTHER -> {}

\* The tracks of the stream the platform gives to a request.
TrackKinds(w) ==
  CASE w = "requestCamera" -> {"video"}
    [] w = "requestMicrophone" -> {"audio"}
    [] w = "requestCameraAndMicrophone" -> {"video", "audio"}
    [] w = "requestScreenCapture" -> {"video"}
    [] OTHER -> {}

\* A track is the pair of its stream and its kind.
TracksOf(stream, tracks) == {t \in tracks : t[1] = stream}

\* The stream objects no entry refers to and no live track belongs to; a new
\* MediaStream is one of them.
FreshStreams ==
  {s \in 1..MaxStreams :
     /\ \A c \in Capabilities : activeStreams[c] # s
     /\ TracksOf(s, liveTracks) = {}}

\* HandleResponseCalls without the settings.onError call.
HandleResponseCallsWithoutOnError(held, success, result, error) ==
  IF success /\ held.onAccept # Undefined
  THEN <<Call("settings.onAccept", result, held.onAccept)>>
  ELSE IF ~success /\ held.onDecline # Undefined
  THEN <<Call("settings.onDecline", error, held.onDecline)>>
  ELSE << >>

\* The calls _handleResponse(success, result, error) makes; error is "none"
\* for null.
HandleResponseCalls(held, success, result, error) ==
  (IF success /\ held.onAccept # Undefined
   THEN <<Call("settings.onAccept", result, held.onAccept)>>
   ELSE IF ~success /\ held.onDecline # Undefined
   THEN <<Call("settings.onDecline", error, held.onDecline)>>
   ELSE << >>)
  \o (IF error # "none" /\ held.onError # Undefined
      THEN <<Call("settings.onError", error, held.onError)>>
      ELSE << >>)

\* What _handleResponse returns: success ? result : null.
HandleResponse(success, result) == IF success THEN result ELSE "null"

\* The call of the caller's own hook on each path.  requestFullscreen calls
\* onAccept without an argument.
SiteCalls(w, options, path) ==
  LET hook == CASE path = "accept" -> "onAccept"
                [] path = "decline" -> "onDecline"
                [] OTHER -> CatchHook(w)
      arg == CASE path = "accept" ->
                    IF w = "requestFullscreen" THEN "undefined" ELSE "result"
               [] path = "decline" -> "reason"
               [] OTHER -> "error"
  IN IF options[hook] # Undefined
     THEN <<Call(hook, arg, options[hook])>>
     ELSE << >>

\* One capability request w(options) with the platform's outcome: on success
\* the stream requests store their stream, then the caller's hook is called,
\* then _handleResponse calls the hooks of the settings and gives the value
\* returned.
RequestCapability(w, options, outcome) ==
  LET path == Path(w, outcome)
      success == path = "accept"
      error == CASE path = "accept" -> "none"
                 [] path = "decline" -> "reason"
                 [] OTHER -> "error"
      stored == success /\ StreamSlots(w) # {}
      stream == IF stored /\ FreshStreams # {}
                THEN CHOOSE s \in FreshStreams : \A x \in FreshStreams : s <= x
                ELSE 0
  IN /\ pageOpen
     /\ stored => FreshStreams # {}
     /\ activeStreams' = IF stored
                         THEN [c \in Capabilities |->
                                 IF c \in StreamSlots(w) THEN stream
                                 ELSE activeStreams[c]]
                         ELSE activeStreams
     /\ liveTracks' = IF stored
                      THEN liveTracks \cup {<<stream, k>> : k \in TrackKinds(w)}
                      ELSE liveTracks
     /\ last' = Step(w, 0, 0, FALSE,
                     [options |-> options, outcome |-> outcome], << >>,
                     SiteCalls(w, options, path)
                       \o HandleResponseCalls(settings, success, "result", error),
                     "none", HandleResponse(success, "result"))
     /\ UNCHANGED <<notificationCallbacks, swNotificationCallbacks, toWorker,
                    toClient, shown, closing, pageOpen, closedTags, settings,
                    serviceWorkerRegistration, href>>

\* The method that stops the stream of one entry of activeStreams.
StopMethod(c) ==
  CASE c = "camera" -> "stopCamera"
    [] c = "microphone" -> "stopMicrophone"
    [] OTHER -> "stopScreenCapture"

\* StreamsAfterStop that leaves the reference in place.
StreamsAfterStopKeepsReference(streams, c) == streams

\* activeStreams after stopCamera, stopMicrophone or stopScreenCapture.
StreamsAfterStop(streams, c) ==
  IF streams[c] # 0 THEN [streams EXCEPT ![c] = 0] ELSE streams

\* The live tracks after it: getTracks().forEach(track => track.stop()) on
\* the stream held.
TracksAfterStop(streams, tracks, c) ==
  IF streams[c] # 0 THEN tracks \ TracksOf(streams[c], tracks) ELSE tracks

\* stopCamera(), stopMicrophone(), stopScreenCapture()
StopStream(c) ==
  /\ pageOpen
  /\ activeStreams' = StreamsAfterStop(activeStreams, c)
  /\ liveTracks' = TracksAfterStop(activeStreams, liveTracks, c)
  /\ last' = Step(StopMethod(c), 0, 0, activeStreams[c] # 0, NoData, << >>,
                  << >>, "none", "none")
  /\ UNCHANGED <<notificationCallbacks, swNotificationCallbacks, toWorker,
                 toClient, shown, closing, pageOpen, closedTags, settings,
                 serviceWorkerRegistration, href>>

\* stopAllStreams(): stopCamera(), then stopMicrophone(), then
\* stopScreenCapture().
StopAllStreams ==
  LET s1 == StreamsAfterStop(activeStreams, "camera")
      t1 == TracksAfterStop(activeStreams, liveTracks, "camera")
      s2 == StreamsAfterStop(s1, "microphone")
      t2 == TracksAfterStop(s1, t1, "microphone")
      s3 == StreamsAfterStop(s2, "screen")
      t3 == TracksAfterStop(s2, t2, "screen")
  IN /\ pageOpen
     /\ activeStreams' = s3
     /\ liveTracks' = t3
     /\ last' = Step("stopAllStreams", 0, 0,
                     \E c \in Capabilities : activeStreams[c] # 0, NoData,
                     << >>, << >>, "none", "none")
     /\ UNCHANGED <<notificationCallbacks, swNotificationCallbacks, toWorker,
                    toClient, shown, closing, pageOpen, closedTags, settings,
                    serviceWorkerRegistration, href>>

\* ================================================================ mailto
\* A string is the sequence of its characters.  The characters of the model:
\* a letter, which encodeURIComponent leaves alone, and two it escapes.
Chars == {"a", " ", "&"}

Strings == UNION {[1..n -> Chars] : n \in 0..MaxChars}

\* encodeURIComponent of one character: its UTF-8 byte as %XX unless the
\* character is unreserved.
EncodeChar(c) ==
  CASE c = " " -> <<"%", "2", "0">>
    [] c = "&" -> <<"%", "2", "6">>
    [] OTHER -> <<c>>

RECURSIVE EncodeURIComponent(_)
EncodeURIComponent(str) ==
  IF str = << >> THEN << >>
  ELSE EncodeChar(Head(str)) \o EncodeURIComponent(Tail(str))

\* Array.prototype.join
RECURSIVE Join(_, _)
Join(parts, sep) ==
  IF parts = << >> THEN << >>
  ELSE IF Len(parts) = 1 THEN Head(parts)
  ELSE Head(parts) \o sep \o Join(Tail(parts), sep)

\* What a caller passes to openMailto; a field left out is the empty string.
MailtoInputs ==
  [to : Strings, cc : Strings, bcc : Strings, subject : Strings,
   body : Strings]

\* mailtoParams after the four pushes.
MailtoParams(params) ==
  (IF params.cc # << >>
   THEN <<(<<"cc=">> \o EncodeURIComponent(params.cc))>> ELSE << >>)
  \o (IF params.bcc # << >>
      THEN <<(<<"bcc=">> \o EncodeURIComponent(params.bcc))>> ELSE << >>)
  \o (IF params.subject # << >>
      THEN <<(<<"subject=">> \o EncodeURIComponent(params.subject))>>
      ELSE << >>)
  \o (IF params.body # << >>
      THEN <<(<<"body=">> \o EncodeURIComponent(params.body))>> ELSE << >>)

\* MailtoLink with the '?' written whether or not there is a parameter.
MailtoLinkAlwaysQuery(params) ==
  <<"mailto:">> \o params.to \o <<"?">> \o Join(MailtoParams(params), <<"&">>)

\* `mailto:${to}${mailtoParams.length ? '?' + mailtoParams.join('&') : ''}`
MailtoLink(params) ==
  <<"mailto:">> \o params.to
    \o (IF Len(MailtoParams(params)) # 0
        THEN <<"?">> \o Join(MailtoParams(params), <<"&">>)
        ELSE << >>)

\* openMailto(params): the link is assigned to window.location.href and true
\* is returned.  Nothing in the try block throws on the strings of the model
\* (encodeURIComponent throws on a lone surrogate only), so the catch block
\* is not reached.
OpenMailto(params) ==
  /\ pageOpen
  /\ href' = MailtoLink(params)
  /\ last' = Step("openMailto", 0, 0, FALSE, params, << >>, << >>, "none",
                  "true")
  /\ UNCHANGED <<notificationCallbacks, swNotificationCallbacks, toWorker,
                 toClient, shown, closing, pageOpen, closedTags, settings,
                 serviceWorkerRegistration, activeStreams, liveTracks>>

\* ================================================================ worker
\* The descriptors a STORE message can carry: per button an action id and
\* the markers onClick and callback, and the markers onClick and onClose.
ButtonDescriptors == [action : ActionIds, onClick : Markers, callback : Markers]

Descriptors ==
  [buttons : UNION {[1..n -> ButtonDescriptors] : n \in 1..MaxButtons},
   onClick : Markers, onClose : Markers]

\* notificationCallbacks.set(event.data.tag, event.data.callbacks)
StoreCallbacks(store, msg) == MapSet(store, msg.tag, msg.callbacks)

\* The worker's message listener on message msg.
OnMessage(msg) ==
  /\ swNotificationCallbacks' =
       IF msg.type = "STORE_NOTIFICATION_CALLBACKS"
       THEN StoreCallbacks(swNotificationCallbacks, msg)
       ELSE swNotificationCallbacks
  /\ last' = Step("store", msg.tag, 0, Has(swNotificationCallbacks, msg.tag),
                  msg.callbacks, << >>, << >>, "none", "none")
  /\ UNCHANGED <<notificationCallbacks, toClient, shown, closing, pageOpen, closedTags>>
  /\ UNCHANGED pageVars

\* The worker handles the oldest message posted to it.
DeliverToWorker ==
  /\ toWorker # << >>
  /\ OnMessage(Head(toWorker))
  /\ toWorker' = Tail(toWorker)

\* The worker handles a STORE message of any content.
StoreAnyMessage(msg) ==
  /\ OnMessage(msg)
  /\ UNCHANGED toWorker

\* ClickMessages with `if` in place of `else if`: the body-click branch runs
\* after the action branch.
ClickMessagesBothBranches(store, tag, action) ==
  IF ~Has(store, tag) THEN << >>
  ELSE LET callbacks == store[tag]
           i == FindButton(callbacks.buttons, action)
       IN (IF action # 0 /\ i # 0 /\ callbacks.buttons[i].callback # Undefined
           THEN <<ActionClicked(tag, action)>> ELSE << >>)
          \o (IF callbacks.onClick # Undefined
              THEN <<Clicked(tag)>> ELSE << >>)

\* What the notificationclick listener posts for a click on the notification
\* tag with event.action = action (0: the body was clicked).
ClickMessages(store, tag, action) ==
  IF ~Has(store, tag) THEN << >>
  ELSE LET callbacks == store[tag]
           i == FindButton(callbacks.buttons, action)
       IN IF action # 0
          THEN IF i # 0 /\ callbacks.buttons[i].callback # Undefined
               THEN <<ActionClicked(tag, action)>>
               ELSE << >>
          ELSE IF callbacks.onClick # Undefined
               THEN <<Clicked(tag)>>
               ELSE << >>

\* CloseMessages without the test of the onClose marker.
CloseMessagesWithoutMarker(store, tag) ==
  IF Has(store, tag) THEN <<Closed(tag)>> ELSE << >>

\* What the notificationclose listener posts.
CloseMessages(store, tag) ==
  IF Has(store, tag) /\ store[tag].onClose # Undefined
  THEN <<Closed(tag)>>
  ELSE << >>

\* clients.forEach(client => client.postMessage(...)): one copy to the page
\* when it is connected, none otherwise.
Broadcast(msgs) == IF pageOpen THEN toClient \o msgs ELSE toClient

\* FocusPolicy without the openWindow fallback.
FocusPolicyNeverOpens == IF pageOpen THEN "focus" ELSE "none"

\* Focus or open a window: the first window found is focused, and with none
\* a new one is opened.
FocusPolicy == IF pageOpen THEN "focus" ELSE "open"

\* The notificationclick listener.
NotificationClick(tag, action) ==
  LET msgs == ClickMessages(swNotificationCallbacks, tag, action)
  IN /\ Len(toClient) < MaxQueue
     /\ shown' = shown \ {tag}
     /\ UNCHANGED closing
     /\ toClient' = Broadcast(msgs)
     /\ pageOpen' = (pageOpen \/ FocusPolicy = "open")
     /\ last' = Step("click", tag, action, Has(swNotificationCallbacks, tag),
                     NoData, msgs, << >>, FocusPolicy, "none")
     /\ UNCHANGED <<notificationCallbacks, swNotificationCallbacks, toWorker,
                    closedTags>>
     /\ UNCHANGED pageVars

\* The notificationclose listener.  What the platform displays and which
\* events it still has to deliver is the platform's: the listener reads and
\* writes neither, and the step that runs it says what becomes of both.
NotificationClose(tag) ==
  LET msgs == CloseMessages(swNotificationCallbacks, tag)
  IN /\ Len(toClient) < MaxQueue
     /\ toClient' = Broadcast(msgs)
     /\ swNotificationCallbacks' = MapDelete(swNotificationCallbacks, tag)
     /\ last' = Step("close", tag, 0, Has(swNotificationCallbacks, tag), NoData,
                     msgs, << >>, "none", "none")
     /\ UNCHANGED <<notificationCallbacks, toWorker, pageOpen, closedTags>>
     /\ UNCHANGED pageVars

\* The platform stops the idle worker; the next event starts it again and
\* runs the script from its first line: const notificationCallbacks = new Map().
WorkerRestart ==
  /\ swNotificationCallbacks # EmptyMap
  /\ swNotificationCallbacks' = EmptyMap
  /\ last' = Step("restart", 0, 0, FALSE, NoData, << >>, << >>, "none", "none")
  /\ UNCHANGED <<notificationCallbacks, toWorker, toClient, shown, closing, pageOpen,
                 closedTags>>
  /\ UNCHANGED pageVars

\* ========================================================= specifications
Init ==
  /\ notificationCallbacks = EmptyMap
  /\ swNotificationCallbacks = EmptyMap
  /\ toWorker = << >>
  /\ toClient = << >>
  /\ shown = {}
  /\ closing = {}
  /\ pageOpen = TRUE
  /\ closedTags = {}
  /\ settings = DefaultSettings
  /\ serviceWorkerRegistration = FALSE
  /\ activeStreams = NoStreams
  /\ liveTracks = {}
  /\ href = PageUrl
  /\ last = NoStep

\* The page registers its worker, once, and the platform lets it.
Register ==
  /\ ~settings.useServiceWorker
  /\ RegisterServiceWorker(TRUE, TRUE, TRUE)

\* The platforms on which notifications are permitted.
GrantedPlatforms ==
  {p \in Platforms : p.defined /\ p.permission = "granted" /\ p.constructOk}

\* The page sends a notification with buttons.
Send ==
  \E h \in Handlers : \E options \in OptionInputs(h) :
    \E time \in 0..MaxClock : \E platform \in GrantedPlatforms :
      SendNotification(options, time, platform)

\* event.action of a platform event, or the action of a message: no action
\* (0), a caller-supplied id, or one more string.
EventActions == 0..(MaxActions + 1)

Click == \E tag \in shown : \E action \in EventActions :
  NotificationClick(tag, action)

\* The user dismisses a displayed notification and the worker handles the
\* event at once.
Close == \E tag \in shown :
  /\ NotificationClose(tag)
  /\ shown' = shown \ {tag}
  /\ UNCHANGED closing

\* The Requester page, the companion worker and the platform.
Next ==
  \/ Register
  \/ Send
  \/ DeliverToWorker
  \/ Click
  \/ Close
  \/ WorkerRestart

Spec == Init /\ [][Next]_vars

\* The registry: notifications are sent and their STORE messages stored, and
\* the page's message listener runs on any message.
ClientMessages ==
  {ActionClicked(t, a) : t \in AllTags, a \in EventActions \ {0}}
    \cup {Clicked(t) : t \in AllTags} \cup {Closed(t) : t \in AllTags}

Receive == \E msg \in ClientMessages : ReceiveAnyMessage(msg)

NextRegistry ==
  \/ Register
  \/ Send
  \/ DeliverToWorker
  \/ Receive

SpecRegistry == Init /\ [][NextRegistry]_vars

\* The worker alone: it stores any descriptor, the platform reports clicks
\* and closes for any tag, and the page comes and goes.
Store == \E t \in AllTags : \E d \in Descriptors :
  StoreAnyMessage(StoreMessage(t, d))

AnyClick == \E tag \in AllTags : \E action \in EventActions :
  NotificationClick(tag, action)

AnyClose == \E tag \in AllTags :
  /\ NotificationClose(tag)
  /\ shown' = shown \ {tag}
  /\ UNCHANGED closing

NextDispatcher ==
  \/ Store
  \/ AnyClick
  \/ AnyClose
  \/ WorkerRestart
  \/ DeliverToClient
  \/ PageClose
  \/ PageOpen

SpecDispatcher == Init /\ [][NextDispatcher]_vars

\* The configuration of the Requester: any setSettings call, and any
\* registration of the worker, whatever the platform makes of it.
Configure == \E h \in Handlers : \E options \in SettingsInputs(h) :
  SetSettings(options)

RegisterAny == \E supported \in BOOLEAN : \E registerOk \in BOOLEAN :
  \E readyOk \in BOOLEAN : RegisterServiceWorker(supported, registerOk, readyOk)

NextSettings ==
  \/ Configure
  \/ RegisterAny

SpecSettings == Init /\ [][NextSettings]_vars

\* The capability requests: the global hooks are set, any request is made
\* with any hooks and any outcome, and notifications without buttons are sent
\* on any platform.
HookKeys == {"onAccept", "onDecline", "onError"}

\* The setSettings options that name hooks only.
HookSettings(h) ==
  UNION {[K -> {Undefined, h}] : K \in (SUBSET HookKeys) \ {{}}}

SetHooks == \E h \in Handlers : \E options \in HookSettings(h) :
  SetSettings(options)

\* The caller asks for a stream only while it holds none: nothing here ever
\* stops one.
Request == \E w \in Wrappers : \E h \in Handlers :
  \E options \in HookInputs(h) : \E outcome \in Outcomes(w) :
    /\ StreamSlots(w) # {} => activeStreams = NoStreams
    /\ RequestCapability(w, options, outcome)

\* No worker is registered here: showNotification is never reached.
BasicPlatforms == {p \in Platforms : p.displayOk}

SendAny == \E h \in Handlers : \E options \in PlainOptionInputs(h) :
  \E time \in 0..MaxClock : \E platform \in BasicPlatforms :
    SendNotification(options, time, platform)

NextCapabilities ==
  \/ SetHooks
  \/ Request
  \/ SendAny

SpecCapabilities == Init /\ [][NextCapabilities]_vars

\* The media streams: streams are requested, without hooks, and stopped.
StreamWrappers == {w \in Wrappers : StreamSlots(w) # {}}

RequestStream == \E w \in StreamWrappers : \E outcome \in Outcomes(w) :
  RequestCapability(w, NoHooks, outcome)

Stop == \E c \in Capabilities : StopStream(c)

NextStreams ==
  \/ RequestStream
  \/ Stop
  \/ StopAllStreams

SpecStreams == Init /\ [][NextStreams]_vars

\* The mailto links: openMailto is called, once, with any fields.
Mailto == \E params \in MailtoInputs :
  /\ href = PageUrl
  /\ OpenMailto(params)

NextMailto ==
  \/ Mailto

SpecMailto == Init /\ [][NextMailto]_vars

\* The routing of sendNotification: the page switches useServiceWorker on and
\* off with setSettings, registers the worker with any outcome, and sends
\* notifications with and without buttons on any platform.
SetUseServiceWorker == \E b \in BOOLEAN :
  SetSettings([k \in {"useServiceWorker"} |-> b])

\* Options with or without buttons and with no notification-level handler.
RoutingOptionInputs(h) ==
  {o \in OptionInputs(h) \cup PlainOptionInputs(h) :
     o.onClick = Undefined /\ o.onClose = Undefined /\ o.onError = Undefined}

\* The platforms that have the global Notification, and with it a
\* permission.
RoutingPlatforms == {p \in Platforms : p.defined}

SendRouted ==
  \E h \in Handlers : \E options \in RoutingOptionInputs(h) :
    \E time \in 0..MaxClock : \E platform \in RoutingPlatforms :
      SendNotification(options, time, platform)

NextRouting ==
  \/ SetUseServiceWorker
  \/ RegisterAny
  \/ SendRouted
  \/ DeliverToWorker

SpecRouting == Init /\ [][NextRouting]_vars

\* The reuse of a tag while the close event of its previous notification is
\* on its way.  The platform runs the worker's listeners one event at a time,
\* but a notificationclose event and a message event come from different
\* sources and the worker may have to be started for either: the order in
\* which a pending close event and a posted STORE message are handled is the
\* platform's choice.

\* The platforms on which a notification is displayed.
DisplayingPlatforms == {p \in GrantedPlatforms : p.displayOk}

SendDisplayed ==
  \E h \in Handlers : \E options \in OptionInputs(h) :
    \E time \in 0..MaxClock : \E platform \in DisplayingPlatforms :
      SendNotification(options, time, platform)

\* The user dismisses a displayed notification: it is gone from the screen,
\* and its notificationclose event is dispatched to the worker.
Dismiss == \E tag \in shown :
  /\ shown' = shown \ {tag}
  /\ closing' = closing \cup {tag}
  /\ last' = Step("dismiss", tag, 0, FALSE, NoData, << >>, << >>, "none",
                  "none")
  /\ UNCHANGED <<notificationCallbacks, swNotificationCallbacks, toWorker,
                 toClient, pageOpen, closedTags>>
  /\ UNCHANGED pageVars

\* The worker handles a pending notificationclose event.
HandleClose == \E tag \in closing :
  /\ NotificationClose(tag)
  /\ closing' = closing \ {tag}
  /\ UNCHANGED shown

NextReuse ==
  \/ Register
  \/ SendDisplayed
  \/ DeliverToWorker
  \/ Dismiss
  \/ HandleClose

SpecReuse == Init /\ [][NextReuse]_vars

\* ================================================================ claims
\* The button of record callbacks that a message or event naming `action`
\* selects has a handler.
HasButtonHandler(callbacks, action) ==
  LET i == FindButton(callbacks.buttons, action)
  IN i # 0 /\ callbacks.buttons[i].onClick # Undefined

\* C1 (as claimed): the action-button round trip.  When the worker has handled
\* a click on button a of the notification t, holds a descriptor for t with a
\* button a, and the foreground holds for t a button a with an onClick
\* handler, the worker has posted NOTIFICATION_ACTION_CLICKED {t, a} to the
\* page, the only message that makes the page call that handler.
C1_ClickReachesButtonHandler ==
  ( /\ last.op = "click"
    /\ last.action # 0
    /\ Has(swNotificationCallbacks, last.tag)
    /\ last.action \in ActionsOf(swNotificationCallbacks[last.tag])
    /\ Has(notificationCallbacks, last.tag)
    /\ HasButtonHandler(notificationCallbacks[last.tag], last.action) )
  => last.emitted = <<ActionClicked(last.tag, last.action)>>

\* C2 (as claimed): the close round trip.  When the worker has handled the
\* close of the notification t, for which it held a descriptor, and the
\* foreground holds an onClose handler for t, the worker has posted
\* NOTIFICATION_CLOSED {t} to the page, the only message that makes the page
\* call onClose and drop the handlers of t.
C2_CloseReachesOnClose ==
  ( /\ last.op = "close"
    /\ last.found
    /\ Has(notificationCallbacks, last.tag)
    /\ notificationCallbacks[last.tag].onClose # Undefined )
  => last.emitted = <<Closed(last.tag)>>

\* C3 (as claimed): both contexts drop their state on close.  When the worker
\* has handled the close of a notification whose descriptor it held, and no
\* message is in flight in either direction, neither the registry nor the
\* worker's store holds an entry for the tag.
C3_BothSidesDropOnClose ==
  ( /\ last.op = "close"
    /\ last.found
    /\ toClient = << >>
    /\ toWorker = << >> )
  => /\ ~Has(notificationCallbacks, last.tag)
     /\ ~Has(swNotificationCallbacks, last.tag)

\* C8 (as claimed): when the worker has handled a click whose action id is an
\* action id of the descriptor it holds for the tag, and a page is connected,
\* it has posted NOTIFICATION_ACTION_CLICKED {tag, action}.
C8_MatchingActionIsEmitted ==
  ( /\ last.op = "click"
    /\ last.found
    /\ last.action # 0
    /\ Has(swNotificationCallbacks, last.tag)
    /\ last.action \in ActionsOf(swNotificationCallbacks[last.tag])
    /\ last.focus = "focus" )
  => last.emitted = <<ActionClicked(last.tag, last.action)>>

\* In the composition of the page and its worker nothing is ever posted to
\* the page.
NothingPostedToClient == toClient = << >> /\ last.emitted = << >>

\* Record callbacks holds some handler.
HasSomeHandler(callbacks) == HoldsFunction(callbacks)

\* The handler that record callbacks holds for a call.
IsHandlerOf(callbacks, call) ==
  CASE call[1] = "button" ->
         \E i \in 1..Len(callbacks.buttons) :
           /\ callbacks.buttons[i].action = call[2]
           /\ callbacks.buttons[i].onClick = call[3]
    [] call[1] = "onClick" -> callbacks.onClick = call[3]
    [] call[1] = "onClose" -> callbacks.onClose = call[3]
    [] OTHER -> FALSE

\* C4: closed is final in the foreground registry.  Once the page has handled
\* NOTIFICATION_CLOSED for a tag and has not registered the tag again, a
\* message of any kind for that tag calls no handler and leaves the registry
\* as it was.
C4_ClosedIsFinal ==
  [][ (last'.op = "message" /\ last'.tag \in closedTags)
      => /\ last'.invoked = << >>
         /\ notificationCallbacks' = notificationCallbacks ]_vars

\* C4 witness: a click message handled for a tag after its close message.
C4_LateClickAfterClosed ==
  /\ last.op = "message"
  /\ last.returned = "NOTIFICATION_CLICKED"
  /\ last.tag \in closedTags

\* C5: NOTIFICATION_ACTION_CLICKED for a tag that has a record, with an action
\* id that no button of the record has, calls no handler and leaves the
\* registry, the record included, as it was.
C5_UnknownActionIsIgnored ==
  [][ ( /\ last'.op = "message"
        /\ last'.returned = "NOTIFICATION_ACTION_CLICKED"
        /\ Has(notificationCallbacks, last'.tag)
        /\ last'.action \notin ActionsOf(notificationCallbacks[last'.tag]) )
      => /\ last'.invoked = << >>
         /\ notificationCallbacks' = notificationCallbacks ]_vars

\* C5 witness: such a message was handled for a record whose button has a
\* handler.
C5_UnknownActionHandled ==
  /\ last.op = "message"
  /\ last.returned = "NOTIFICATION_ACTION_CLICKED"
  /\ Has(notificationCallbacks, last.tag)
  /\ last.action \notin ActionsOf(notificationCallbacks[last.tag])
  /\ \E i \in 1..Len(notificationCallbacks[last.tag].buttons) :
       notificationCallbacks[last.tag].buttons[i].onClick # Undefined

C9_OneMessageKindPerClick ==
  last.op = "click"
  => /\ Len(last.emitted) <= 1
     /\ \A k \in 1..Len(last.emitted) :
          last.emitted[k].type =
            IF last.action # 0 THEN "NOTIFICATION_ACTION_CLICKED"
                               ELSE "NOTIFICATION_CLICKED"

\* C9 witness: a click on an action button of a descriptor that also has the
\* onClick marker posted its message.
C9_ActionClickPosted ==
  /\ last.op = "click"
  /\ last.action # 0
  /\ Len(last.emitted) = 1
  /\ Has(swNotificationCallbacks, last.tag)
  /\ swNotificationCallbacks[last.tag].onClick # Undefined

\* C10: a click for a tag the worker holds no descriptor for posts nothing to
\* the page, and the window focus policy still runs: a connected window is
\* focused, and with none a new one is opened.
C10_ClickWithoutDescriptor ==
  [][ (last'.op = "click" /\ ~last'.found)
      => /\ last'.emitted = << >>
         /\ toClient' = toClient
         /\ notificationCallbacks' = notificationCallbacks
         /\ last'.focus = (IF pageOpen THEN "focus" ELSE "open")
         /\ pageOpen' ]_vars

\* C10 witness: such a click after the worker lost its store, with no window
\* connected.
C10_ClickWithoutDescriptorOpensWindow ==
  /\ last.op = "click"
  /\ ~last.found
  /\ last.focus = "open"
  /\ swNotificationCallbacks = EmptyMap

\* C11: the worker's close listener.  For a close event for tag t it posts
\* NOTIFICATION_CLOSED {t}, and nothing else, exactly when it holds a
\* descriptor for t with the onClose marker; what it posts reaches the page
\* when one is connected; and in every case its store has no entry for t
\* afterwards.
C11_CloseEmitsIffOnCloseMarker ==
  [][ last'.op = "close"
      => /\ last'.emitted \in {<< >>, <<Closed(last'.tag)>>}
         /\ (last'.emitted = <<Closed(last'.tag)>>)
              <=> ( /\ Has(swNotificationCallbacks, last'.tag)
                    /\ swNotificationCallbacks[last'.tag].onClose # Undefined )
         /\ toClient' = (IF pageOpen THEN toClient \o last'.emitted ELSE toClient)
         /\ ~Has(swNotificationCallbacks', last'.tag) ]_vars

\* C11 witness: a close event for a descriptor with the onClose marker posted
\* NOTIFICATION_CLOSED to the connected page.
C11_ClosedPosted ==
  /\ last.op = "close"
  /\ last.found
  /\ last.emitted = <<Closed(last.tag)>>
  /\ toClient # << >>
  /\ toClient[Len(toClient)] = Closed(last.tag)

C13_OneStoreMessagePerSend ==
  [][ last'.op = "send"
      => /\ Len(toWorker') = Len(toWorker) + 1
         /\ toWorker'[Len(toWorker')].type = "STORE_NOTIFICATION_CALLBACKS"
         /\ toWorker'[Len(toWorker')].tag = last'.tag ]_vars

\* C14 (as claimed): a send whose tag the code generated never takes the tag
\* of a notification that is still displayed and still has its record, so it
\* never overwrites the record of a pending notification.
C14_GeneratedTagIsFresh ==
  [][ (last'.op = "send" /\ last'.tag \notin CallerTags)
      => ~(last'.tag \in shown /\ Has(notificationCallbacks, last'.tag)) ]_vars

\* C15 (as claimed): setSettings merges errorPopupStyle key by key.  After
\* setSettings with a style map S, every key the style had and S does not
\* name keeps its value, and every key of S has the value S gives it.
C15_StyleMergedKeyByKey ==
  [][ (last'.op = "setSettings" /\ "errorPopupStyle" \in DOMAIN last'.data)
      => /\ \A k \in (DOMAIN settings.errorPopupStyle)
                       \ (DOMAIN last'.data.errorPopupStyle) :
              /\ k \in DOMAIN settings'.errorPopupStyle
              /\ settings'.errorPopupStyle[k] = settings.errorPopupStyle[k]
         /\ \A k \in DOMAIN last'.data.errorPopupStyle :
              /\ k \in DOMAIN settings'.errorPopupStyle
              /\ settings'.errorPopupStyle[k] = last'.data.errorPopupStyle[k]
    ]_vars

\* C16 (as claimed): a capability request whose platform request rejects calls
\* the caller's onDecline hook with the rejection reason, calls no onAccept
\* hook, the caller's or the settings', and returns null.
C16_RejectionReachesOnDecline ==
  ( /\ last.op \in Wrappers
    /\ last.data.outcome = "reject"
    /\ last.data.options.onDecline # Undefined )
  => /\ \E k \in 1..Len(last.invoked) :
          last.invoked[k] = Call("onDecline", "error", last.data.options.onDecline)
     /\ \A k \in 1..Len(last.invoked) :
          last.invoked[k][1] \notin {"onAccept", "settings.onAccept"}
     /\ last.returned = "null"

\* C17 (as claimed): no capability request and no sendNotification throws or
\* rejects: whatever the platform does, the caller gets a value back.
C17_NothingEscapes ==
  last.op \in Wrappers \cup {"sendNotification", "basic", "send"}
  => last.returned # "throws"

\* The kind of hook a request reports an outcome to: onAccept on success,
\* onDecline where it declines, and in its catch block the hook that block
\* calls.
OutcomeHook(w, outcome) ==
  CASE Path(w, outcome) = "accept" -> "onAccept"
    [] Path(w, outcome) = "decline" -> "onDecline"
    [] OTHER -> CatchHook(w)

GlobalRole(hook) ==
  CASE hook = "onAccept" -> "settings.onAccept"
    [] hook = "onDecline" -> "settings.onDecline"
    [] OTHER -> "settings.onError"

\* The calls of the last step in one role.
CallsIn(role) == {k \in 1..Len(last.invoked) : last.invoked[k][1] = role}

C19_StopReleasesAndClears ==
  [][ \A c \in Capabilities :
        last'.op = StopMethod(c)
        => /\ activeStreams'[c] = 0
           /\ \A d \in Capabilities \ {c} : activeStreams'[d] = activeStreams[d]
           /\ activeStreams[c] # 0
              => /\ TracksOf(activeStreams[c], liveTracks') = {}
                 /\ liveTracks' \subseteq liveTracks
                 /\ \A t \in liveTracks :
                      t[1] # activeStreams[c] => t \in liveTracks'
           /\ activeStreams[c] = 0
              => /\ liveTracks' = liveTracks
                 /\ activeStreams' = activeStreams
                 /\ settings' = settings
                 /\ notificationCallbacks' = notificationCallbacks ]_vars

\* C19 witness: stopMicrophone stopped the stream it held while the camera
\* holds another stream, whose track is still live.
C19_MicrophoneStopped ==
  /\ last.op = "stopMicrophone"
  /\ last.found
  /\ activeStreams.microphone = 0
  /\ activeStreams.camera # 0
  /\ TracksOf(activeStreams.camera, liveTracks) # {}

\* The link as the claim describes it: after mailto:<to>, each non-empty field
\* of cc, bcc, subject, body, in that order, as name=encoded value, the first
\* one after '?' and every later one after '&'.
MailtoFields == <<"cc", "bcc", "subject", "body">>

RECURSIVE ExpectedQuery(_, _, _)
ExpectedQuery(params, i, first) ==
  IF i > Len(MailtoFields) THEN << >>
  ELSE IF params[MailtoFields[i]] = << >>
  THEN ExpectedQuery(params, i + 1, first)
  ELSE <<(IF first THEN "?" ELSE "&")>>
         \o (CASE i = 1 -> <<"cc=">>
               [] i = 2 -> <<"bcc=">>
               [] i = 3 -> <<"subject=">>
               [] OTHER -> <<"body=">>)
         \o EncodeURIComponent(params[MailtoFields[i]])
         \o ExpectedQuery(params, i + 1, FALSE)

\* C20: for every combination of empty and non-empty to, cc, bcc, subject and
\* body, the link openMailto navigates to is mailto:<to>, then '?' if and only
\* if some parameter is non-empty, then the encoded non-empty parameters in
\* the order cc, bcc, subject, body joined with '&'; a space is written %20,
\* and to is written as it is.
C20_MailtoLinkAsDescribed ==
  (last.op = "openMailto" /\ last.returned = "true")
  => /\ href = <<"mailto:">> \o last.data.to \o ExpectedQuery(last.data, 1, TRUE)
     /\ (\E k \in 1..Len(href) : href[k] = "?")
          <=> (\E i \in 1..Len(MailtoFields) : last.data[MailtoFields[i]] # << >>)
     /\ (last.data.to = << >> /\ \A i \in 1..Len(MailtoFields) :
                                   last.data[MailtoFields[i]] = << >>)
          => href = <<"mailto:">>
     /\ (last.data = [to |-> <<"a">>, cc |-> << >>, bcc |-> << >>,
                      subject |-> <<" ">>, body |-> << >>])
          => href = <<"mailto:", "a", "?", "subject=", "%", "2", "0">>

\* C20 witness: a link with cc and body and no subject, the body a space.
C20_LinkWithTwoParameters ==
  /\ last.op = "openMailto"
  /\ last.returned = "true"
  /\ last.data.cc = <<"&">>
  /\ last.data.bcc = << >>
  /\ last.data.subject = << >>
  /\ last.data.body = <<" ">>
  /\ href = <<"mailto:">> \o last.data.to
              \o <<"?", "cc=", "%", "2", "6", "&", "body=", "%", "2", "0">>

\* C21: a registerServiceWorker call throws when the platform has no
\* service worker facility; it returns the registration only when register()
\* and navigator.serviceWorker.ready have both resolved, and only then does it
\* set useServiceWorker; a call that throws leaves settings as they were.
C21_RegisterSetsFlagOnlyWhenReady ==
  [][last'.op = "registerServiceWorker"
     => /\ last'.returned \in {"registration", "throws"}
        /\ ~last'.data.supported
             => /\ last'.returned = "throws"
                /\ serviceWorkerRegistration' = serviceWorkerRegistration
        /\ last'.returned = "registration"
             <=> (last'.data.supported /\ last'.data.registerOk
                    /\ last'.data.readyOk)
        /\ last'.returned = "registration"
             => (settings'.useServiceWorker /\ serviceWorkerRegistration')
        /\ last'.returned = "throws" => settings' = settings
        /\ (settings'.useServiceWorker /\ ~settings.useServiceWorker)
             => last'.returned = "registration"]_vars

\* C21 witness: register() resolved and ready rejected: the call threw, the
\* registration is held and useServiceWorker is still false.
C21_ReadyRejected ==
  /\ last.op = "registerServiceWorker"
  /\ last.data.supported
  /\ last.data.registerOk
  /\ ~last.data.readyOk
  /\ last.returned = "throws"
  /\ serviceWorkerRegistration
  /\ ~settings.useServiceWorker

\* What C22 says of one sendNotification call with these options on this
\* platform.
RoutedAsDescribed(options, platform) ==
  LET hasButtons == Len(options.buttons) > 0
      storesUntouched ==
        /\ notificationCallbacks' = notificationCallbacks
        /\ swNotificationCallbacks' = swNotificationCallbacks
        /\ toWorker' = toWorker
  IN /\ platform.permission # "granted"
          => /\ last'.returned = "null"
             /\ last'.op = "sendNotification"
             /\ storesUntouched
     /\ (platform.permission = "granted" /\ hasButtons
           /\ ~settings.useServiceWorker)
          => /\ last'.op = "basic"
             /\ last'.data.buttons = << >>
             /\ storesUntouched
     /\ last'.op = "send"
          => /\ platform.permission = "granted"
             /\ settings.useServiceWorker
             /\ serviceWorkerRegistration
             /\ hasButtons
     /\ last'.op # "send" => storesUntouched

\* C22: a sendNotification call without granted permission returns null and
\* writes no registry entry and posts no message; with buttons and
\* useServiceWorker false it goes through _sendBasicNotification without the
\* buttons and leaves the registry and the worker's store as they were; the
\* registry is written and a STORE message posted only if useServiceWorker is
\* true, a registration is held and buttons are present.
C22_RoutingAsDescribed ==
  [][\A h \in Handlers : \A options \in RoutingOptionInputs(h) :
       \A time \in 0..MaxClock : \A platform \in RoutingPlatforms :
         SendNotification(options, time, platform)
           => RoutedAsDescribed(options, platform)]_vars

\* C22 witness: with useServiceWorker true and a registration held, a
\* notification with buttons wrote the registry and posted its STORE message.
C22_SentThroughWorker ==
  /\ last.op = "send"
  /\ last.returned = "sent"
  /\ settings.useServiceWorker
  /\ serviceWorkerRegistration
  /\ Has(notificationCallbacks, last.tag)
  /\ Len(last.data.buttons) > 0
  /\ toWorker # << >>

\* C23: after a _sendServiceWorkerNotification call that returned null for a
\* tag the registry did not hold before the call, the foreground registry
\* holds no record for that tag.
C23_FailedSendLeavesNoRecord ==
  (last.op = "send" /\ last.returned = "null" /\ ~last.found)
    => ~Has(notificationCallbacks, last.tag)

\* No STORE message for the tag is on its way to the worker.
StoreArrived(tag) == \A i \in 1..Len(toWorker) : toWorker[i].tag # tag

\* C24: a notificationclose event of an earlier notification, handled while
\* a later notification with the same tag is displayed and its STORE message
\* has arrived, removes no record of the later one from the worker's store or
\* from the foreground registry, and posts no NOTIFICATION_CLOSED message for
\* it.
C24_StaleCloseSparesNewRecord ==
  [][(/\ last'.op = "close"
      /\ last'.tag \in closing
      /\ last'.tag \in shown
      /\ StoreArrived(last'.tag))
     => /\ swNotificationCallbacks' = swNotificationCallbacks
        /\ notificationCallbacks' = notificationCallbacks
        /\ last'.emitted = << >>]_vars

\* C25: every non-null entry of activeStreams refers to a stream no stop
\* operation has stopped: the stream still has a live track.
C25_HeldStreamsAreLive ==
  \A c \in Capabilities :
    activeStreams[c] # 0 => TracksOf(activeStreams[c], liveTracks) # {}

====
